---------------------------- MODULE Spec2Model ----------------------------
(***************************************************************************)
(* AutoUnpack (src/autounpack.py): the completion poller                    *)
(* (UnpackMonitorThread.run), the archive grouping and the extraction of    *)
(* one archive set (Unpacker), and the start / stop commands of MainApp.    *)
(*                                                                          *)
(* Text is a sequence of one-character strings, a path a sequence of        *)
(* components, each a text.  gui_queue holds the extraction_success and     *)
(* extraction_failure messages, the ones whose handling changes the state   *)
(* of the program; the status and progress messages of one extract_archive  *)
(* call are kept, with its outcome message and in the order of the puts, in *)
(* call[w].events.  Log lines are left out.                                 *)
(***************************************************************************)
EXTENDS Integers, Sequences, FiniteSets, TLC

(***************************************************************************)
(* Text and path helpers (str, pathlib).                                    *)
(***************************************************************************)
Digits == {"0", "1", "2", "3", "4", "5", "6", "7", "8", "9"}

UpperToLower ==
    ("A" :> "a") @@ ("B" :> "b") @@ ("P" :> "p") @@ ("R" :> "r") @@
    ("S" :> "s") @@ ("T" :> "t") @@ ("Z" :> "z")

\* str.lower(), on the letters the model's names use
LowerChar(c) == IF c \in DOMAIN UpperToLower THEN UpperToLower[c] ELSE c

Lower(s) == [i \in 1..Len(s) |-> LowerChar(s[i])]

\* str.rfind(c), 1-based; 0 when c does not occur
RFind(s, c) ==
    LET hits == {i \in 1..Len(s) : s[i] = c}
    IN  IF hits = {} THEN 0 ELSE CHOOSE i \in hits : \A j \in hits : j <= i

\* str.startswith
StartsWith(s, p) == Len(p) <= Len(s) /\ SubSeq(s, 1, Len(p)) = p

\* PurePath.suffix: from the last dot, unless the dot leads or ends the name
Suffix(name) ==
    LET i == RFind(name, ".")
    IN  IF 1 < i /\ i < Len(name) THEN SubSeq(name, i, Len(name)) ELSE <<>>

\* PurePath.stem
Stem(name) ==
    LET i == RFind(name, ".")
    IN  IF 1 < i /\ i < Len(name) THEN SubSeq(name, 1, i - 1) ELSE name

AllDigits(s) == \A i \in 1..Len(s) : s[i] \in Digits

SUPPORTED_ARCHIVE_EXTENSIONS ==
    { <<".", "z", "i", "p">>, <<".", "r", "a", "r">>, <<".", "7", "z">>,
      <<".", "t", "a", "r">>, <<".", "g", "z">>, <<".", "b", "z", "2">> }

\* the second group of PART_REGEX, matched ignoring case:
\* part\d{1,3} | [rs]\d{2} | z\d{2} | \d{3}
IsPartToken(tok) ==
    LET t == Lower(tok)
    IN  \/ /\ Len(t) \in 5..7
           /\ SubSeq(t, 1, 4) = <<"p", "a", "r", "t">>
           /\ AllDigits(SubSeq(t, 5, Len(t)))
        \/ /\ Len(t) = 3
           /\ t[1] \in {"r", "s", "z"}
           /\ AllDigits(SubSeq(t, 2, 3))
        \/ /\ Len(t) = 3
           /\ AllDigits(t)

\* PART_REGEX.match(s) is not None.  No token holds a dot, so the literal dot
\* of the pattern is the last dot of s, and (.+?) needs a character before it.
PartMatches(s) ==
    LET i == RFind(s, ".")
    IN  i > 1 /\ IsPartToken(SubSeq(s, i + 1, Len(s)))

\* PART_REGEX.match(s).group(1)
PartGroup1(s) == SubSeq(s, 1, RFind(s, ".") - 1)

\* code-point order of the characters the model's names use
CharOrder ==
    << " ", "(", ")", ".", "0", "1", "2", "3", "4", "5", "6", "7", "8", "9",
       "A", "B", "P", "R", "S", "T", "Z",
       "a", "b", "d", "g", "i", "l", "m", "n", "p", "r", "s", "t", "x", "y", "z" >>

Ord(c) == CHOOSE i \in 1..Len(CharOrder) : CharOrder[i] = c

\* str.__lt__
TextLess(a, b) ==
    \E k \in 1..(Len(b)) :
        /\ \A j \in 1..(k - 1) : j <= Len(a) /\ a[j] = b[j]
        /\ k - 1 <= Len(a)
        /\ (k > Len(a) \/ Ord(a[k]) < Ord(b[k]))

\* PurePath.__lt__ (POSIX flavour): the lists of components, compared in order
PathLess(p, q) ==
    \E k \in 1..(Len(q)) :
        /\ \A j \in 1..(k - 1) : j <= Len(p) /\ p[j] = q[j]
        /\ k - 1 <= Len(p)
        /\ (k > Len(p) \/ TextLess(p[k], q[k]))

\* PurePath.name, PurePath.parent, PurePath.__truediv__
Name(p) == p[Len(p)]
Parent(p) == SubSeq(p, 1, Len(p) - 1)
Join(p, name) == Append(p, name)

\* whether p lies in the tree of directory d (os.walk(d) visits it)
IsUnder(p, d) == Len(d) < Len(p) /\ SubSeq(p, 1, Len(d)) = d

\* str(path) of an absolute POSIX path
RECURSIVE StrOf(_)
StrOf(p) ==
    IF p = <<>> THEN <<>>
    ELSE StrOf(SubSeq(p, 1, Len(p) - 1)) \o <<"/">> \o p[Len(p)]

\* Path.resolve() of an absolute path: ".." steps are folded away (the model
\* has no symbolic links)
RECURSIVE Resolve(_)
Resolve(p) ==
    IF p = <<>> THEN <<>>
    ELSE LET front == Resolve(SubSeq(p, 1, Len(p) - 1))
             last  == p[Len(p)]
         IN  IF last = <<".", ".">>
             THEN (IF front = <<>> THEN <<>>
                   ELSE SubSeq(front, 1, Len(front) - 1))
             ELSE Append(front, last)

\* str(int), for the counters the model reaches
RECURSIVE StrInt(_)
StrInt(n) ==
    LET d == <<"0", "1", "2", "3", "4", "5", "6", "7", "8", "9">>
    IN  IF n < 10 THEN <<d[n + 1]>> ELSE StrInt(n \div 10) \o <<d[(n % 10) + 1]>>

(***************************************************************************)
(* Unpacker.unpack_archives: the candidates, the archive sets and the       *)
(* primary file of each set.                                                *)
(***************************************************************************)
\* lines 51 and 57: the file is a candidate archive
IsCandidate(p) ==
    \/ Lower(Suffix(Name(p))) \in SUPPORTED_ARCHIVE_EXTENSIONS
    \/ PartMatches(Name(p))

\* lines 66-74: the key the file is grouped under
BaseName(p) ==
    LET name == Name(p)
    IN  IF PartMatches(Stem(name)) THEN PartGroup1(Stem(name))
        ELSE IF Lower(Suffix(name)) = <<".", "r", "a", "r">> /\ PartMatches(name)
             THEN PartGroup1(name)
             ELSE Stem(name)

\* the keys of archive_sets, in insertion order
RECURSIVE SetKeys(_)
SetKeys(all) ==
    IF all = <<>> THEN <<>>
    ELSE LET rest == SetKeys(SubSeq(all, 1, Len(all) - 1))
             b    == BaseName(all[Len(all)])
         IN  IF \E i \in 1..Len(rest) : rest[i] = b THEN rest ELSE Append(rest, b)

\* line 75 with one list for every key
PartsOfAnyKey(all, b) == all

\* lines 64-75: archive_sets[base_name], in the order of the appends
PartsOf(all, b) == SelectSeq(all, LAMBDA p : BaseName(p) = b)

\* lines 80-84 without the look for .rar files: the smallest path
PrimaryOfSmallest(file_list) ==
    CHOOSE f \in {file_list[i] : i \in 1..Len(file_list)} :
        \A i \in 1..Len(file_list) : file_list[i] = f \/ PathLess(f, file_list[i])

\* lines 80-84: the first .rar file, else the smallest path
PrimaryOf(file_list) ==
    LET rar_files == SelectSeq(file_list,
                         LAMBDA f : Lower(Suffix(Name(f))) = <<".", "r", "a", "r">>)
    IN  IF rar_files # <<>> THEN rar_files[1]
        ELSE CHOOSE f \in {file_list[i] : i \in 1..Len(file_list)} :
                 \A i \in 1..Len(file_list) :
                     file_list[i] = f \/ PathLess(f, file_list[i])

\* lines 64-87: the (primary, parts) pairs extract_archive is called with, in
\* the order of the calls
ArchiveSets(all) ==
    [k \in 1..Len(SetKeys(all)) |->
        LET file_list == PartsOf(all, SetKeys(all)[k])
        IN  [base |-> SetKeys(all)[k],
             primary |-> PrimaryOf(file_list),
             parts |-> file_list]]

(***************************************************************************)
(* The world the model runs in: the torrents the service lists, the files   *)
(* on disk and the configuration.                                           *)
(***************************************************************************)
\* how many monitor threads one process run starts (start_monitoring calls)
MaxRuns == 2

\* how many faults the environment injects in one behaviour: a refused login,
\* a failed query or pause request, a directory or file the disk refuses to
\* make, write or remove, an extraction tool that fails
MaxFaults == 2

Workers == 1..MaxRuns

\* config["Folders"]["monitor_path"]: /dl
monitor_path == << <<"d", "l">> >>

\* the content path of a torrent the service reports without one (JSON null,
\* None in Python; no real path of the model is empty)
NoContentPath == <<>>

\* qbt_client.torrents(), in the order of the list: a folder and two single
\* files below the monitored root, a folder in the sibling /dl2, one reached
\* through "..", one without a content path, and the folder /dl/g
Torrents ==
    << [hash |-> "hA", content_path |-> << <<"d", "l">>, <<"A">> >>],
       [hash |-> "hB", content_path |->
            << <<"d", "l">>, <<"b", ".", "z", "i", "p">> >>],
       [hash |-> "hC", content_path |->
            << <<"d", "l">>, <<"b", ".", "7", "z">> >>],
       [hash |-> "hS", content_path |-> << <<"d", "l", "2">>, <<"x">> >>],
       [hash |-> "hO", content_path |->
            << <<"d", "l">>, <<".", ".">>, <<"m">>, <<"y">> >>],
       [hash |-> "hN", content_path |-> NoContentPath],
       [hash |-> "hG", content_path |-> << <<"d", "l">>, <<"g">> >>] >>

Hashes == {Torrents[k].hash : k \in 1..Len(Torrents)}

TorrentOf(h) == CHOOSE t \in {Torrents[k] : k \in 1..Len(Torrents)} : t.hash = h

\* the files on disk at the start, in the order os.walk lists them
FileTable ==
    << << <<"d", "l">>, <<"A">>, <<"x", ".", "r", "a", "r">> >>,
       << <<"d", "l">>, <<"A">>, <<"x", ".", "r", "0", "0">> >>,
       << <<"d", "l">>, <<"A">>, <<"x", ".", "r", "0", "1">> >>,
       << <<"d", "l">>, <<"A">>, <<"y", ".", "z", "i", "p">> >>,
       << <<"d", "l">>, <<"b", ".", "z", "i", "p">> >>,
       << <<"d", "l">>, <<"b", ".", "7", "z">> >>,
       << <<"d", "l", "2">>, <<"x">>, <<"s", ".", "z", "i", "p">> >>,
       << <<"m">>, <<"y">>, <<"m", ".", "z", "i", "p">> >> >>

\* the directories on disk at the start
DirTable ==
    { << <<"d", "l">> >>, << <<"d", "l">>, <<"A">> >>,
      << <<"d", "l", "2">> >>, << <<"d", "l", "2">>, <<"x">> >>,
      << <<"m">> >>, << <<"m">>, <<"y">> >> }

\* line 211: str(content_path.resolve()).startswith(str(monitor_path.resolve()))
InMonitoredPath(content_path) ==
    StartsWith(StrOf(Resolve(content_path)), StrOf(Resolve(monitor_path)))

(***************************************************************************)
(* State.                                                                   *)
(***************************************************************************)
VARIABLES
    complete,            \* service: hashes whose progress is 1
    downloading,         \* service: hashes whose progress is below 1 and rising
    paused,              \* service: hashes a pause request has paused
    files,               \* disk: the files that exist
    dirs,                \* disk: the directories that exist
    listing,             \* disk: the files in the order a directory walk yields them
    logfile,             \* extractions.log: its text
    delete_on_success,   \* config["General"]["delete_on_success"]
    create_subfolder,    \* config["General"]["create_subfolder"]
    processed_torrents,  \* MainApp.processed_torrents, shared by every thread
    gui_queue,           \* MainApp.gui_queue: the outcome messages put on it
    extraction_history,  \* MainApp.extraction_history
    monitor_thread,      \* MainApp.monitor_thread (0: None)
    start_enabled,       \* the Start button is enabled, the Stop button is not
    summary,             \* the counts of the last "Delete All Data"
    pc,                  \* per thread: where UnpackMonitorThread.run stands
    stop_event,          \* per thread: _stop_event
    timeout,             \* per thread: the argument of the current wait()
    batch,               \* per thread: torrents_to_process
    idx,                 \* per thread: the loop index i (1-based)
    sets,                \* per thread: the archive sets unpack_archives has left
    output_dir,          \* per thread: extract_archive's output_dir
    extraction_name,     \* per thread: extract_archive's extraction_name
    part_i,              \* per thread: the index of the delete loop
    raising,             \* per thread: an exception is in flight in extract_archive
    login,               \* history: per thread, the outcome of login()
    tick,                \* history: per thread, the current or last poll tick
    seen,                \* history: per thread, the hashes a tick has selected
    dispatched,          \* history: per thread and hash, calls of unpack_archives
    call,                \* history: per thread, the current or last extract_archive
    faults,              \* history: the faults the environment has injected
    starts_left          \* how often the user will still press Start

world == <<complete, downloading, paused, files, dirs, listing, logfile,
           delete_on_success, create_subfolder>>
app == <<processed_torrents, gui_queue, extraction_history, monitor_thread,
         start_enabled, summary>>
locals == <<pc, stop_event, timeout, batch, idx, sets, output_dir,
            extraction_name, part_i, raising>>
history == <<login, tick, seen, dispatched, call, faults, starts_left>>
vars == <<world, app, locals, history>>

NoTick ==
    [eligible |-> {}, selected |-> {}, raised |-> FALSE, done |-> FALSE,
     waited |-> 0]

NoCall ==
    [state |-> "none", hash |-> "", name |-> <<>>, primary |-> <<>>,
     parts |-> <<>>, tool |-> "none", events |-> <<>>, records |-> <<>>,
     tried |-> {}, failed |-> {}]

\* _delete_all_data has not run
NoSummary == [deleted |-> 0, failed |-> 0, shown |-> FALSE]

\* MainApp.__init__: nothing is processed, no thread exists, Start is enabled
\* the disk as the monitor thread finds it: the files of FileTable, and no
\* extractions.log yet
InitDisk ==
    /\ files = {FileTable[k] : k \in 1..Len(FileTable)}
    /\ dirs = DirTable
    /\ listing = FileTable
    /\ logfile = <<>>

InitApp ==
    /\ paused = {}
    /\ extraction_history = <<>>
    /\ summary = NoSummary
    /\ processed_torrents = {}
    /\ gui_queue = <<>>
    /\ monitor_thread = 0
    /\ start_enabled = TRUE
    /\ pc = [w \in Workers |-> "idle"]
    /\ stop_event = [w \in Workers |-> FALSE]
    /\ timeout = [w \in Workers |-> 0]
    /\ batch = [w \in Workers |-> <<>>]
    /\ idx = [w \in Workers |-> 0]
    /\ sets = [w \in Workers |-> <<>>]
    /\ output_dir = [w \in Workers |-> <<>>]
    /\ extraction_name = [w \in Workers |-> <<>>]
    /\ part_i = [w \in Workers |-> 0]
    /\ raising = [w \in Workers |-> FALSE]
    /\ login = [w \in Workers |-> [tries |-> 0, ok |-> FALSE, status |-> "none",
                                   queried |-> FALSE]]
    /\ tick = [w \in Workers |-> NoTick]
    /\ seen = [w \in Workers |-> {}]
    /\ dispatched = [w \in Workers |-> [h \in Hashes |-> 0]]
    /\ call = [w \in Workers |-> NoCall]

\* one run of the monitor thread, under each configuration: hA, hS and hO
\* are complete, hB and hN are still downloading, hC is stalled
Init ==
    /\ InitApp
    /\ InitDisk
    /\ delete_on_success \in BOOLEAN
    /\ create_subfolder \in BOOLEAN
    /\ complete = {"hA", "hS", "hO"}
    /\ downloading = {"hB", "hN"}
    /\ faults = 0
    /\ starts_left = 1

\* Stop and Start are pressed again while the earlier threads may still run,
\* with subfolders and deletion configured: hB and hC are complete, hO is
\* still downloading, the environment injects one fault less
InitRestart ==
    /\ InitApp
    /\ InitDisk
    /\ delete_on_success = TRUE
    /\ create_subfolder = TRUE
    /\ complete = {"hB", "hC"}
    /\ downloading = {"hO"}
    /\ faults = MaxFaults - 1
    /\ starts_left = MaxRuns

\* the environment takes a step that is a fault, or one that is none
Fault(failed) ==
    /\ failed => faults < MaxFaults
    /\ faults' = IF failed THEN faults + 1 ELSE faults

(***************************************************************************)
(* The service and the commands of the main window.                         *)
(***************************************************************************)
\* a download finishes: the service reports progress 1 from now on
TorrentCompletes(h) ==
    /\ h \in downloading
    /\ downloading' = downloading \ {h}
    /\ complete' = complete \cup {h}
    /\ UNCHANGED <<paused, files, dirs, logfile, listing, delete_on_success,
                   create_subfolder, app, locals, history>>

\* MainApp.start_monitoring: a fresh thread over the shared processed_torrents
start_monitoring ==
    /\ start_enabled
    /\ starts_left > 0
    /\ starts_left' = starts_left - 1
    /\ \E w \in Workers :
        /\ pc[w] = "idle"
        /\ \A v \in Workers : v < w => pc[v] # "idle"
        /\ monitor_thread' = w
        /\ pc' = [pc EXCEPT ![w] = "connecting"]
    /\ start_enabled' = FALSE
    /\ UNCHANGED <<world, extraction_history, summary, processed_torrents, gui_queue,
                   stop_event, timeout, batch, idx, sets, output_dir,
                   extraction_name, part_i, raising, login, tick, seen,
                   dispatched, call, faults>>

\* MainApp.stop_monitoring: the event is set when the thread is alive; the
\* thread is not joined
stop_monitoring ==
    /\ ~start_enabled
    /\ stop_event' =
         IF monitor_thread # 0 /\ pc[monitor_thread] \notin {"idle", "stopped"}
         THEN [stop_event EXCEPT ![monitor_thread] = TRUE]
         ELSE stop_event
    /\ start_enabled' = TRUE
    /\ UNCHANGED <<world, extraction_history, summary, processed_torrents, gui_queue,
                   monitor_thread, pc, timeout, batch, idx, sets, output_dir,
                   extraction_name, part_i, raising, history>>

(***************************************************************************)
(* UnpackMonitorThread.run: connecting and the poll tick.                   *)
(***************************************************************************)
\* run without the return of line 189: it goes on to poll after a failed login
AfterLoginGoesOn(ok) == "loop"

\* lines 182-189: where run goes after login()
AfterLogin(ok) == IF ok THEN "loop" ELSE "stopped"

\* lines 185 and 188: the status the thread reports
LoginStatus(ok) == IF ok THEN "Monitoring..." ELSE "Error: Connection Failed"

Login(w) ==
    /\ pc[w] = "connecting"
    /\ \E ok \in BOOLEAN :
        /\ Fault(~ok)
        /\ login' = [login EXCEPT ![w].tries = @ + 1, ![w].ok = ok,
                                  ![w].status = LoginStatus(ok)]
        /\ pc' = [pc EXCEPT ![w] = AfterLogin(ok)]
    /\ UNCHANGED <<world, app, stop_event, timeout, batch, idx, sets, output_dir,
                   extraction_name, part_i, raising, tick, seen, dispatched, call,
                   starts_left>>

\* the loop of line 203 as while True: the stop event is never examined
AfterLoopTestIgnoresStop(stop) == "poll"

\* line 203: the test of the while loop ends run() or lets the next tick begin
AfterLoopTest(stop) == IF stop THEN "stopped" ELSE "poll"

\* line 203: while not self._stop_event.is_set()
LoopHead(w) ==
    /\ pc[w] = "loop"
    /\ pc' = [pc EXCEPT ![w] = AfterLoopTest(stop_event[w])]
    /\ UNCHANGED <<world, app, stop_event, timeout, batch, idx, sets, output_dir,
                   extraction_name, part_i, raising, history>>

\* run with the normal pause after a failed tick as well
WaitAfterAlwaysNormal(raised) == 15

\* lines 236 and 241: the argument of the wait that ends a tick
WaitAfter(raised) == IF raised THEN 60 ELSE 15

\* the test of line 208 without the look into processed_torrents
IsNewIgnoringProcessed(t) == t.hash \in complete

\* line 208: the torrent is complete and not processed yet
IsNew(t) == t.hash \in complete /\ t.hash \notin processed_torrents

\* lines 209-211: Path(None) raises TypeError
SelectionRaises ==
    \E k \in 1..Len(Torrents) :
        IsNew(Torrents[k]) /\ Torrents[k].content_path = NoContentPath

\* lines 205-212: torrents_to_process, by hash
Selected ==
    LET picked == SelectSeq(Torrents,
                      LAMBDA t : /\ IsNew(t)
                                 /\ t.content_path # NoContentPath
                                 /\ InMonitoredPath(t.content_path))
    IN  [k \in 1..Len(picked) |-> picked[k].hash]

SeqRange(q) == {q[k] : k \in 1..Len(q)}

\* lines 232-237: an exception ends the tick: the status is reported and the
\* thread waits before it polls again
TickRaised(w, t) ==
    /\ tick' = [tick EXCEPT ![w] = [t EXCEPT !.raised = TRUE, !.done = TRUE]]
    /\ pc' = [pc EXCEPT ![w] = "wait"]
    /\ timeout' = [timeout EXCEPT ![w] = WaitAfter(TRUE)]
    /\ batch' = [batch EXCEPT ![w] = <<>>]
    /\ idx' = [idx EXCEPT ![w] = 0]
    /\ sets' = [sets EXCEPT ![w] = <<>>]

\* lines 205-215, and 232-237 when the query or the selection raises
Poll(w) ==
    /\ pc[w] = "poll"
    /\ login' = [login EXCEPT ![w].queried = TRUE]
    /\ \E answered \in BOOLEAN :
        /\ Fault(~answered)
        /\ IF ~answered
           THEN /\ TickRaised(w, NoTick)
                /\ UNCHANGED seen
           ELSE IF SelectionRaises
           THEN /\ TickRaised(w, [NoTick EXCEPT !.eligible = SeqRange(Selected)])
                /\ UNCHANGED seen
           ELSE /\ tick' = [tick EXCEPT ![w] =
                               [NoTick EXCEPT !.eligible = SeqRange(Selected),
                                              !.selected = SeqRange(Selected),
                                              !.done = (Selected = <<>>)]]
                /\ seen' = [seen EXCEPT ![w] = @ \cup SeqRange(Selected)]
                /\ batch' = [batch EXCEPT ![w] = Selected]
                /\ idx' = [idx EXCEPT ![w] = IF Selected = <<>> THEN 0 ELSE 1]
                /\ pc' = [pc EXCEPT ![w] =
                             IF Selected = <<>> THEN "wait" ELSE "item"]
                /\ timeout' = [timeout EXCEPT ![w] =
                                  IF Selected = <<>> THEN WaitAfter(FALSE) ELSE @]
                /\ UNCHANGED sets
    /\ UNCHANGED <<world, app, stop_event, output_dir, extraction_name, part_i,
                   raising, dispatched, call,
                   starts_left>>

\* lines 236 and 241: wait() returns, the time is up or the event is set
WaitReturns(w) ==
    /\ pc[w] = "wait"
    /\ tick' = [tick EXCEPT ![w].waited = @ + timeout[w]]
    /\ pc' = [pc EXCEPT ![w] = "loop"]
    /\ UNCHANGED <<world, app, stop_event, timeout, batch, idx, sets, output_dir,
                   extraction_name, part_i, raising, login, seen, dispatched, call,
                   faults, starts_left>>

\* the loop of line 216 without the add of line 219
MarkedNever(h) == processed_torrents

\* line 219: self.processed_torrents.add(torrent['hash'])
Marked(h) == processed_torrents \cup {h}

\* lines 217-219: the hash is marked processed
ItemBegin(w) ==
    /\ pc[w] = "item"
    /\ processed_torrents' = Marked(batch[w][idx[w]])
    /\ pc' = [pc EXCEPT ![w] = "pause"]
    /\ UNCHANGED <<world, extraction_history, summary, gui_queue, monitor_thread,
                   start_enabled, stop_event, timeout, batch, idx, sets,
                   output_dir, extraction_name, part_i, raising, history>>

\* the loop of line 216 without the try of lines 221-226: a failed pause
\* leaves the batch
AfterPauseUncaught(ok) == IF ok THEN "unpack" ELSE "loop"

\* lines 221-228: after the pause request, failed or not, unpack_archives
AfterPause(ok) == "unpack"

\* lines 221-226: the pause request; its failure is logged and nothing more
Pause(w) ==
    /\ pc[w] = "pause"
    /\ \E ok \in BOOLEAN :
        /\ Fault(~ok)
        /\ paused' = IF ok THEN paused \cup {batch[w][idx[w]]} ELSE paused
        /\ pc' = [pc EXCEPT ![w] = AfterPause(ok)]
    /\ UNCHANGED <<complete, downloading, files, dirs, logfile, listing, delete_on_success,
                   create_subfolder, app, stop_event, timeout, batch, idx, sets,
                   output_dir, extraction_name, part_i, raising, login, tick,
                   seen, dispatched, call,
                   starts_left>>

(***************************************************************************)
(* Unpacker.unpack_archives and Unpacker.extract_archive, run inline by the *)
(* thread.                                                                  *)
(***************************************************************************)
\* lines 49-58: all_archives.  The dispatched content paths hold no ".." step.
AllArchives(path) ==
    IF path \in files
    THEN (IF IsCandidate(path) THEN <<path>> ELSE <<>>)
    ELSE IF path \in dirs
    THEN SelectSeq(listing,
             LAMBDA p : p \in files /\ IsUnder(p, path) /\ IsCandidate(p))
    ELSE <<>>

\* the for loop of line 216 with a test of the stop event before each item: a
\* set event ends the batch
ItemDoneChecksStop(w) ==
    IF idx[w] < Len(batch[w]) /\ ~stop_event[w]
    THEN /\ idx' = [idx EXCEPT ![w] = @ + 1]
         /\ pc' = [pc EXCEPT ![w] = "item"]
         /\ UNCHANGED <<batch, timeout, tick>>
    ELSE /\ idx' = [idx EXCEPT ![w] = 0]
         /\ batch' = [batch EXCEPT ![w] = <<>>]
         /\ pc' = [pc EXCEPT ![w] = "wait"]
         /\ timeout' = [timeout EXCEPT ![w] = WaitAfter(FALSE)]
         /\ tick' = [tick EXCEPT ![w].done = TRUE]

\* lines 216, 230 and 241: unpack_archives returned; the next item of the
\* batch, or the end of the tick
ItemDone(w) ==
    IF idx[w] < Len(batch[w])
    THEN /\ idx' = [idx EXCEPT ![w] = @ + 1]
         /\ pc' = [pc EXCEPT ![w] = "item"]
         /\ UNCHANGED <<batch, timeout, tick>>
    ELSE /\ idx' = [idx EXCEPT ![w] = 0]
         /\ batch' = [batch EXCEPT ![w] = <<>>]
         /\ pc' = [pc EXCEPT ![w] = "wait"]
         /\ timeout' = [timeout EXCEPT ![w] = WaitAfter(FALSE)]
         /\ tick' = [tick EXCEPT ![w].done = TRUE]

\* line 228 and lines 47-62: unpack_archives(content_path) is called
Unpack(w) ==
    LET h   == batch[w][idx[w]]
        all == AllArchives(TorrentOf(h).content_path)
    IN  /\ pc[w] = "unpack"
        /\ dispatched' = [dispatched EXCEPT ![w][h] = @ + 1]
        /\ IF all = <<>>
           THEN /\ ItemDone(w)
                /\ UNCHANGED sets
           ELSE /\ sets' = [sets EXCEPT ![w] = ArchiveSets(all)]
                /\ pc' = [pc EXCEPT ![w] = "extract"]
                /\ UNCHANGED <<batch, idx, timeout, tick>>
        /\ UNCHANGED <<world, app, stop_event, output_dir, extraction_name,
                       part_i, raising, login, seen, call, faults, starts_left>>

\* lines 93-98: the k-th name tried for the output directory
OutputDirName(base_name, k) ==
    IF k = 0 THEN base_name
    ELSE base_name \o <<" ", "(">> \o StrInt(k) \o <<")">>

\* lines 93-98: the first name that does not exist
FreeOutputDir(parent, base_name) ==
    LET taken == files \cup dirs
        k == CHOOSE n \in 0..Cardinality(taken) :
                 /\ Join(parent, OutputDirName(base_name, n)) \notin taken
                 /\ \A j \in 0..(n - 1) :
                        Join(parent, OutputDirName(base_name, j)) \in taken
    IN  Join(parent, OutputDirName(base_name, k))

Msg(tag, text, name, path) ==
    [tag |-> tag, text |-> text, name |-> name, path |-> path]

\* lines 89-107: extract_archive is entered and output_dir is chosen
ExtractBegin(w) ==
    LET h         == batch[w][idx[w]]
        set       == sets[w][1]
        base_name == Name(TorrentOf(h).content_path)
        parent    == Parent(set.primary)
    IN  /\ pc[w] = "extract"
        /\ call' = [call EXCEPT ![w] =
                       [NoCall EXCEPT !.state = "active", !.hash = h,
                                      !.name = base_name,
                                      !.primary = set.primary,
                                      !.parts = set.parts]]
        /\ IF create_subfolder
           THEN /\ output_dir' = [output_dir EXCEPT ![w] =
                                     FreeOutputDir(parent, base_name)]
                /\ extraction_name' = [extraction_name EXCEPT ![w] =
                                          Name(FreeOutputDir(parent, base_name))]
                /\ pc' = [pc EXCEPT ![w] = "mkdir"]
           ELSE /\ output_dir' = [output_dir EXCEPT ![w] = parent]
                /\ extraction_name' = [extraction_name EXCEPT ![w] = base_name]
                /\ pc' = [pc EXCEPT ![w] = "run"]
        /\ UNCHANGED <<world, app, stop_event, timeout, batch, idx, sets, part_i,
                       raising, login, tick, seen, dispatched, faults, starts_left>>

\* mkdir(exist_ok=True) in place of line 102: an existing directory is taken
MkdirExistOk(permitted, exists) == permitted

\* line 102: output_dir.mkdir() makes the directory unless the name exists or
\* the directory may not be made
MkdirSucceeds(permitted, exists) == permitted /\ ~exists

\* line 102: output_dir.mkdir().  It raises when the name exists by now
\* (FileExistsError) or the directory cannot be made (PermissionError); the
\* exception leaves extract_archive and unpack_archives (lines 232-237)
Mkdir(w) ==
    /\ pc[w] = "mkdir"
    /\ \E permitted \in BOOLEAN :
        /\ Fault(~permitted)
        /\ IF MkdirSucceeds(permitted, output_dir[w] \in (files \cup dirs))
           THEN /\ dirs' = dirs \cup {output_dir[w]}
                /\ pc' = [pc EXCEPT ![w] = "run"]
                /\ UNCHANGED <<timeout, batch, idx, sets, tick, call>>
           ELSE /\ TickRaised(w, tick[w])
                /\ call' = [call EXCEPT ![w].state = "raised"]
                /\ UNCHANGED dirs
    /\ UNCHANGED <<complete, downloading, paused, files, logfile, listing, delete_on_success,
                   create_subfolder, app, stop_event, output_dir,
                   extraction_name, part_i, raising, login, seen, dispatched,
                   starts_left>>

\* lines 111-112: the status and the start of the progress bar are queued
RunTool(w) ==
    /\ pc[w] = "run"
    /\ call' = [call EXCEPT ![w].events = @ \o
                   << Msg("status", "Extracting", Name(call[w].primary), <<>>),
                      Msg("progress", "start", <<>>, <<>>) >>]
    /\ pc' = [pc EXCEPT ![w] = "tool"]
    /\ UNCHANGED <<world, app, stop_event, timeout, batch, idx, sets, output_dir,
                   extraction_name, part_i, raising, login, tick, seen, dispatched,
                   faults, starts_left>>

\* extract_archive without check=True: every end of the tool counts as success
AfterToolUnchecked(result) == "log_success"

\* lines 121-122, 133-140: the handler the end of subprocess.run leads to
AfterTool(result) == IF result = "ok" THEN "log_success" ELSE "log_failure"

\* lines 116-119: subprocess.run(command, check=True, ...) ends: exit status
\* 0, CalledProcessError, or another exception
ToolExits(w) ==
    /\ pc[w] = "tool"
    /\ \E result \in {"ok", "nonzero", "exception"} :
        /\ Fault(result # "ok")
        /\ call' = [call EXCEPT ![w].tool = result]
        /\ pc' = [pc EXCEPT ![w] = AfterTool(result)]
    /\ UNCHANGED <<world, app, stop_event, timeout, batch, idx, sets, output_dir,
                   extraction_name, part_i, raising, login, tick, seen, dispatched,
                   starts_left>>

\* lines 122, 137 and 140: the status argument, as text
StatusText(status) ==
    IF status = "SUCCESS" THEN <<"S", "U", "C", "C", "E", "S", "S">>
    ELSE <<"F", "A", "I", "L", "U", "R", "E">>

\* line 147: f"{status}:{name}:{path}\n"
FormatLine(status, name, path) ==
    StatusText(status) \o <<":">> \o name \o <<":">> \o path \o <<"\n">>

\* lines 122, 137, 140: _log_extraction_event(status, extraction_name,
\* str(output_dir)): the line it writes
LogLine(status, w) ==
    FormatLine(status, extraction_name[w], StrOf(output_dir[w]))

\* the arguments of that call, kept in call[w].records
LogArgs(status, w) ==
    [status |-> status, name |-> extraction_name[w], path |-> StrOf(output_dir[w])]

\* _log_extraction_event with a handler of its own: a write that raised is
\* passed over and the call goes on as after a write that succeeded
AfterSuccessWriteSwallowed(written) == "put_success"

\* lines 122, 138 and 145-151: after the write the message is put; an
\* exception of open() or write() leaves _log_extraction_event for the
\* handler of line 138
AfterSuccessWrite(written) == IF written THEN "put_success" ELSE "log_failure"

\* lines 122 and 145-148: the SUCCESS line is written; when open() or write()
\* raises, the handler of line 138 takes over
LogSuccess(w) ==
    /\ pc[w] = "log_success"
    /\ \E written \in BOOLEAN :
        /\ Fault(~written)
        /\ IF written
           THEN /\ logfile' = logfile \o LogLine("SUCCESS", w)
                /\ call' = [call EXCEPT ![w].records =
                               Append(@, LogArgs("SUCCESS", w))]
                /\ pc' = [pc EXCEPT ![w] = AfterSuccessWrite(written)]
           ELSE /\ pc' = [pc EXCEPT ![w] = AfterSuccessWrite(written)]
                /\ UNCHANGED <<logfile, call>>
    /\ UNCHANGED <<complete, downloading, paused, files, dirs, listing, delete_on_success,
                   create_subfolder, app, stop_event, timeout, batch, idx, sets,
                   output_dir, extraction_name, part_i, raising, login, tick,
                   seen, dispatched,
                   starts_left>>

\* lines 125-127: after the SUCCESS record, the delete loop or the end
AfterSuccess(delete) == IF delete THEN "delete" ELSE "finally"

\* lines 150-151: the success message is queued
PutSuccess(w) ==
    LET m == Msg("extraction_success", "", extraction_name[w],
                 StrOf(output_dir[w]))
    IN  /\ pc[w] = "put_success"
        /\ gui_queue' = Append(gui_queue, m)
        /\ call' = [call EXCEPT ![w].events = Append(@, m)]
        /\ part_i' = [part_i EXCEPT ![w] = 1]
        /\ pc' = [pc EXCEPT ![w] = AfterSuccess(delete_on_success)]
        /\ UNCHANGED <<world, extraction_history, summary, processed_torrents, monitor_thread, start_enabled, stop_event, timeout, batch,
                       idx, sets, output_dir, extraction_name, raising, login,
                       tick, seen, dispatched, faults, starts_left>>

\* lines 137 / 140 and 145-148: the FAILURE line is written; when open() or
\* write() raises here, the exception leaves extract_archive after finally
LogFailure(w) ==
    /\ pc[w] = "log_failure"
    /\ \E written \in BOOLEAN :
        /\ Fault(~written)
        /\ IF written
           THEN /\ logfile' = logfile \o LogLine("FAILURE", w)
                /\ call' = [call EXCEPT ![w].records =
                               Append(@, LogArgs("FAILURE", w))]
                /\ pc' = [pc EXCEPT ![w] = "put_failure"]
                /\ UNCHANGED raising
           ELSE /\ raising' = [raising EXCEPT ![w] = TRUE]
                /\ pc' = [pc EXCEPT ![w] = "finally"]
                /\ UNCHANGED <<logfile, call>>
    /\ UNCHANGED <<complete, downloading, paused, files, dirs, listing, delete_on_success,
                   create_subfolder, app, stop_event, timeout, batch, idx, sets,
                   output_dir, extraction_name, part_i, login, tick, seen,
                   dispatched,
                   starts_left>>

\* lines 152-153: the failure message is queued
PutFailure(w) ==
    LET m == Msg("extraction_failure", "", extraction_name[w],
                 StrOf(output_dir[w]))
    IN  /\ pc[w] = "put_failure"
        /\ gui_queue' = Append(gui_queue, m)
        /\ call' = [call EXCEPT ![w].events = Append(@, m)]
        /\ pc' = [pc EXCEPT ![w] = "finally"]
        /\ UNCHANGED <<world, extraction_history, summary, processed_torrents, monitor_thread, start_enabled, stop_event, timeout, batch,
                       idx, sets, output_dir, extraction_name, part_i, raising,
                       login, tick, seen, dispatched, faults, starts_left>>

\* the delete loop with a break after its first pass: one part is removed
AfterRemoveOnlyFirst(removed, i, n) == "finally"

\* the delete loop without the inner try: the first OSError ends it
AfterRemoveStopsOnError(removed, i, n) ==
    IF removed /\ i < n THEN "delete" ELSE "finally"

\* lines 127-132: the loop goes on to the next part, whether os.remove
\* succeeded or raised OSError
AfterRemove(removed, i, n) == IF i < n THEN "delete" ELSE "finally"

\* lines 127-132: os.remove(part); OSError (the file is missing, or may not be
\* removed) is logged
DeletePart(w) ==
    LET part == call[w].parts[part_i[w]]
    IN  /\ pc[w] = "delete"
        /\ \E permitted \in BOOLEAN :
            LET removed == permitted /\ part \in files
            IN  /\ Fault(~permitted)
                /\ files' = IF removed THEN files \ {part} ELSE files
                /\ call' = [call EXCEPT
                               ![w].tried = @ \cup {part},
                               ![w].failed = IF removed THEN @ ELSE @ \cup {part}]
                /\ pc' = [pc EXCEPT ![w] =
                             AfterRemove(removed, part_i[w], Len(call[w].parts))]
        /\ part_i' = [part_i EXCEPT ![w] = @ + 1]
        /\ UNCHANGED <<complete, downloading, paused, dirs, logfile, listing, delete_on_success,
                       create_subfolder, app, stop_event, timeout, batch, idx,
                       sets, output_dir, extraction_name, raising, login, tick,
                       seen, dispatched,
                   starts_left>>

\* lines 141-143, then line 77 (the next archive set), line 216 (the next
\* item) or lines 232-237 (the exception in flight)
Finally(w) ==
    LET done == [call[w] EXCEPT
                    !.events = @ \o << Msg("progress", "stop", <<>>, <<>>),
                                       Msg("status", "Monitoring...", <<>>, <<>>) >>]
    IN  /\ pc[w] = "finally"
        /\ raising' = [raising EXCEPT ![w] = FALSE]
        /\ part_i' = [part_i EXCEPT ![w] = 0]
        /\ output_dir' = [output_dir EXCEPT ![w] = <<>>]
        /\ extraction_name' = [extraction_name EXCEPT ![w] = <<>>]
        /\ IF raising[w]
           THEN /\ TickRaised(w, tick[w])
                /\ call' = [call EXCEPT ![w] = [done EXCEPT !.state = "raised"]]
           ELSE /\ call' = [call EXCEPT ![w] = [done EXCEPT !.state = "returned"]]
                /\ IF Len(sets[w]) > 1
                   THEN /\ sets' = [sets EXCEPT ![w] = Tail(@)]
                        /\ pc' = [pc EXCEPT ![w] = "extract"]
                        /\ UNCHANGED <<batch, idx, timeout, tick>>
                   ELSE /\ sets' = [sets EXCEPT ![w] = <<>>]
                        /\ ItemDone(w)
        /\ UNCHANGED <<world, app, stop_event, login, seen, dispatched, faults, starts_left>>

Step(w) ==
    \/ Login(w) \/ LoopHead(w) \/ Poll(w) \/ WaitReturns(w)
    \/ ItemBegin(w) \/ Pause(w) \/ Unpack(w)
    \/ ExtractBegin(w) \/ Mkdir(w) \/ RunTool(w) \/ ToolExits(w)
    \/ LogSuccess(w) \/ PutSuccess(w) \/ LogFailure(w) \/ PutFailure(w)
    \/ DeletePart(w) \/ Finally(w)

Next ==
    \/ start_monitoring
    \/ stop_monitoring
    \/ \E h \in Hashes : TorrentCompletes(h)
    \/ \E w \in Workers : Step(w)

Spec == Init /\ [][Next]_vars

\* one run of the monitor thread with subfolders and deletion configured: hA
\* is complete, hB is still downloading, the environment injects one fault
\* less
InitFair ==
    /\ InitApp
    /\ InitDisk
    /\ delete_on_success = TRUE
    /\ create_subfolder = TRUE
    /\ complete = {"hA"}
    /\ downloading = {"hB"}
    /\ faults = MaxFaults - 1
    /\ starts_left = 1

\* the positions of a thread in run()
Positions ==
    {"idle", "connecting", "loop", "poll", "item", "pause", "unpack", "extract",
     "mkdir", "run", "tool", "log_success", "put_success", "log_failure",
     "put_failure", "delete", "finally", "wait", "stopped"}

\* a live thread runs on: it leaves the position it is at.  Only a step of the
\* thread itself changes pc[w], and every step of a thread but the passes of
\* the delete loop, which are finitely many, does.
Runs(w) ==
    /\ pc[w] \notin {"idle", "stopped"}
    /\ pc' \in {[pc EXCEPT ![w] = t] : t \in Positions \ {pc[w]}}

\* the scheduler lets every live thread run on, and every call the thread
\* waits for (the service, the tool, the disk) comes back
SpecFair == InitFair /\ [][Next]_vars /\ \A w \in Workers : WF_pc(Runs(w))

SpecRestart == InitRestart /\ [][Next]_vars

(***************************************************************************)
(* Grouping: the folder /dl/g of torrent hG holds some of the files of      *)
(* GroupPool, which a directory walk yields in any order, the files of the  *)
(* folder itself before those of its subfolder.                             *)
(***************************************************************************)
\* how many files the folder holds
MaxFiles == 3

GroupDir == << <<"d", "l">>, <<"g">> >>

GroupSubDir == << <<"d", "l">>, <<"g">>, <<"s">> >>

GroupPool ==
    { Join(GroupDir, <<"x", ".", "r", "a", "r">>),
      Join(GroupDir, <<"x", ".", "r", "0", "0">>),
      Join(GroupDir, <<"x", ".", "r", "0", "1">>),
      Join(GroupDir, <<"y", ".", "p", "a", "r", "t", "1", ".", "r", "a", "r">>),
      Join(GroupDir, <<"y", ".", "p", "a", "r", "t", "2", ".", "r", "a", "r">>),
      Join(GroupDir, <<"y", ".", "p", "a", "r", "t", "1", "0", ".", "r", "a", "r">>),
      Join(GroupDir, <<"x", ".", "z", "i", "p">>),
      Join(GroupDir, <<"n", ".", "t", "x", "t">>),
      Join(GroupSubDir, <<"x", ".", "z", "i", "p">>) }

\* lines 54-56: os.walk yields the files of a directory before it descends
WalkOrders ==
    { q \in UNION {[1..n -> GroupPool] : n \in 0..MaxFiles} :
        /\ \A i, j \in DOMAIN q : i # j => q[i] # q[j]
        /\ \A i, j \in DOMAIN q : i < j => Len(q[i]) <= Len(q[j]) }

\* hG is complete, nothing fails, archives are extracted where they are
InitGroup ==
    /\ InitApp
    /\ listing \in WalkOrders
    /\ files = SeqRange(listing)
    /\ dirs = DirTable \cup {GroupDir, GroupSubDir}
    /\ logfile = <<>>
    /\ delete_on_success = FALSE
    /\ create_subfolder = FALSE
    /\ complete = {"hG"}
    /\ downloading = {}
    /\ faults = MaxFaults
    /\ starts_left = 1

NextGroup ==
    \/ start_monitoring
    \/ \E w \in Workers :
           \/ Login(w) \/ LoopHead(w) \/ Poll(w) \/ WaitReturns(w)
           \/ ItemBegin(w) \/ Pause(w) \/ Unpack(w)
           \/ ExtractBegin(w) \/ RunTool(w) \/ ToolExits(w)
           \/ LogSuccess(w) \/ PutSuccess(w) \/ Finally(w)

SpecGroup == InitGroup /\ [][NextGroup]_vars

(***************************************************************************)
(* The extraction history: extractions.log is written by                    *)
(* _log_extraction_event, may be edited by its owner, and is read by        *)
(* MainApp._load_extraction_history when the window is built.               *)
(***************************************************************************)
\* how many lines the history file gets
MaxLines == 3

\* str.find(c), 1-based; 0 when c does not occur
Find(s, c) ==
    LET hits == {i \in 1..Len(s) : s[i] = c}
    IN  IF hits = {} THEN 0 ELSE CHOOSE i \in hits : \A j \in hits : i <= j

\* the characters str.strip() removes
Whitespace == {" ", "\t", "\n", "\r"}

\* str.strip()
Strip(s) ==
    LET keep == {i \in 1..Len(s) : s[i] \notin Whitespace}
    IN  IF keep = {} THEN <<>>
        ELSE SubSeq(s, CHOOSE i \in keep : \A j \in keep : i <= j,
                       CHOOSE i \in keep : \A j \in keep : j <= i)

\* str.split(sep, maxsplit)
RECURSIVE Split(_, _, _)
Split(s, sep, maxsplit) ==
    LET i == Find(s, sep)
    IN  IF maxsplit = 0 \/ i = 0 THEN <<s>>
        ELSE <<SubSeq(s, 1, i - 1)>>
                 \o Split(SubSeq(s, i + 1, Len(s)), sep, maxsplit - 1)

\* line 531: for line in f.  The lines of the text, each without the line
\* break that ends it (strip() removes it in line 532)
RECURSIVE FileLines(_)
FileLines(text) ==
    LET i == Find(text, "\n")
    IN  IF text = <<>> THEN <<>>
        ELSE IF i = 0 THEN <<text>>
        ELSE <<SubSeq(text, 1, i - 1)>> \o FileLines(SubSeq(text, i + 1, Len(text)))

\* the loop of lines 531-540 with a break in place of the continue of line 537
OnShortLineStops(rest) == <<>>

\* lines 531-540: the loop over the lines; a blank line and a line of fewer
\* than three fields are passed over
RECURSIVE LoadLines(_)
RECURSIVE OnShortLine(_)
OnShortLine(rest) == LoadLines(rest)

LoadLines(lines) ==
    IF lines = <<>> THEN <<>>
    ELSE LET line  == Strip(Head(lines))
             parts == Split(line, ":", 2)
         IN  IF line = <<>> THEN LoadLines(Tail(lines))
             ELSE IF Len(parts) < 3 THEN OnShortLine(Tail(lines))
             ELSE << <<parts[1], parts[2], parts[3]>> >> \o LoadLines(Tail(lines))

\* lines 527-540: the list _load_extraction_history builds from the file
LoadHistory(text) == LoadLines(FileLines(text))

\* the names and the paths extract_archive is called with in this world: a
\* path with a drive letter, and one of a folder whose name ends in a space
HistoryNames == { <<"A", " ", "(", "1", ")">> }
HistoryPaths ==
    { <<"/", "d", "l", "/", "A">>,
      <<"C", ":", "\\", "A">>,
      <<"/", "d", "l", "/", "A", " ">> }

\* lines somebody else may leave in the file: blank, text without a colon,
\* text with one colon
ForeignLines ==
    { <<>>, <<" ">>, <<"j", "u", "n", "k">>, <<"S", "U", "C", "C", "E", "S", "S", ":", "A">> }

\* the tag of the message _log_extraction_event puts (lines 150-153)
TagOf(status) ==
    IF status = "SUCCESS" THEN "extraction_success" ELSE "extraction_failure"

\* lines 145-153: _log_extraction_event(status, name, path)
LogExtractionEvent(status, name, path) ==
    /\ Len(FileLines(logfile)) < MaxLines
    /\ logfile' = logfile \o FormatLine(status, name, path)
    /\ gui_queue' = Append(gui_queue, Msg(TagOf(status), "", name, path))
    /\ UNCHANGED <<complete, downloading, paused, files, dirs, listing,
                   delete_on_success, create_subfolder, processed_torrents,
                   extraction_history, summary, monitor_thread, start_enabled, locals,
                   history>>

\* the owner of the file adds a line to it
ForeignLine(line) ==
    /\ Len(FileLines(logfile)) < MaxLines
    /\ logfile' = logfile \o line \o <<"\n">>
    /\ UNCHANGED <<complete, downloading, paused, files, dirs, listing,
                   delete_on_success, create_subfolder, app, locals, history>>

\* lines 527-540: MainApp._load_extraction_history
load_extraction_history ==
    /\ extraction_history' = LoadHistory(logfile)
    /\ UNCHANGED <<world, processed_torrents, gui_queue, summary, monitor_thread,
                   start_enabled, locals, history>>

InitHistory ==
    /\ InitApp
    /\ files = {}
    /\ dirs = DirTable
    /\ listing = <<>>
    /\ logfile = <<>>
    /\ delete_on_success = FALSE
    /\ create_subfolder = TRUE
    /\ complete = {}
    /\ downloading = {}
    /\ faults = 0
    /\ starts_left = 0

NextHistory ==
    \/ \E status \in {"SUCCESS", "FAILURE"} :
           \E name \in HistoryNames : \E path \in HistoryPaths :
               LogExtractionEvent(status, name, path)
    \/ \E line \in ForeignLines : ForeignLine(line)
    \/ load_extraction_history

SpecHistory == InitHistory /\ [][NextHistory]_vars

(***************************************************************************)
(* The history list of the main window and "Delete All Data": one run of    *)
(* the monitor thread over hA while the main window takes the messages off  *)
(* the queue and deletes.                                                   *)
(***************************************************************************)
\* Path(path_str) of the text of an absolute POSIX path: its components
PathOf(text) == SelectSeq(Split(text, "/", Len(text)), LAMBDA c : c # <<>>)

\* lines 704-712: the history entry an outcome message is appended as
HistoryEntry(m) ==
    << StatusText(IF m.tag = "extraction_success" THEN "SUCCESS" ELSE "FAILURE"),
       m.name, m.path >>

\* lines 681-712: _poll_gui_queue takes every message off the queue and
\* appends the outcome messages to extraction_history
poll_gui_queue ==
    /\ extraction_history' =
           extraction_history \o
               [k \in 1..Len(gui_queue) |-> HistoryEntry(gui_queue[k])]
    /\ gui_queue' = <<>>
    /\ UNCHANGED <<world, processed_torrents, monitor_thread, start_enabled,
                   summary, locals, history>>

\* the loop of lines 584-599 without its try: the first deletion that raises
\* ends the loop
OnDeleteErrorStops(i, n) == n + 1

\* lines 597-599: the exception is logged and counted, the loop goes on with
\* the next record
OnDeleteError(i, n) == i + 1

\* lines 584-599: the loop over history_to_delete from record i on.  A
\* directory is removed with all it holds (shutil.rmtree), a file is removed
\* (os.remove), a path that does not exist is passed over; a removal that
\* raises leaves the path and is counted as failed.
RECURSIVE DeleteHistory(_, _, _, _)
DeleteHistory(hist, i, raises, d) ==
    IF i > Len(hist) THEN d
    ELSE LET path == PathOf(hist[i][3])
         IN  IF path \notin d.dirs /\ path \notin d.files
             THEN DeleteHistory(hist, i + 1, raises, d)
             ELSE IF i \in raises
             THEN DeleteHistory(hist, OnDeleteError(i, Len(hist)), raises,
                                [d EXCEPT !.failed = @ + 1])
             ELSE IF path \in d.dirs
             THEN DeleteHistory(hist, i + 1, raises,
                      [d EXCEPT !.files = {f \in @ : ~IsUnder(f, path)},
                                !.dirs = {x \in @ : x # path /\ ~IsUnder(x, path)},
                                !.deleted = @ + 1])
             ELSE DeleteHistory(hist, i + 1, raises,
                      [d EXCEPT !.files = @ \ {path}, !.deleted = @ + 1])

\* lines 558-613: MainApp._delete_all_data.  Without the confirmation nothing
\* changes.  With it every recorded path is deleted, the list is emptied and
\* extractions.log is removed; when that os.remove raises (line 605), the
\* exception leaves the handler before the summary is shown.
delete_all_data ==
    \E response \in {"DELETE!", ""} :
        IF response # "DELETE!" THEN UNCHANGED vars
        ELSE \E raises \in SUBSET (1..Len(extraction_history)) :
             \E log_removed \in BOOLEAN :
                LET d == DeleteHistory(extraction_history, 1, raises,
                             [files |-> files, dirs |-> dirs,
                              deleted |-> 0, failed |-> 0])
                IN  /\ d.failed = Cardinality(raises)
                    /\ ~log_removed => logfile # <<>>
                    /\ faults + Cardinality(raises)
                           + (IF log_removed THEN 0 ELSE 1) <= MaxFaults
                    /\ faults' = faults + Cardinality(raises)
                                     + (IF log_removed THEN 0 ELSE 1)
                    /\ files' = d.files
                    /\ dirs' = d.dirs
                    /\ extraction_history' = <<>>
                    /\ logfile' = IF log_removed THEN <<>> ELSE logfile
                    /\ summary' = [deleted |-> d.deleted, failed |-> d.failed,
                                   shown |-> log_removed]
                    /\ UNCHANGED <<complete, downloading, paused, listing,
                                   delete_on_success, create_subfolder,
                                   processed_torrents, gui_queue, monitor_thread,
                                   start_enabled, locals, login, tick, seen,
                                   dispatched, call, starts_left>>

\* one run of the monitor thread, under each configuration: hA is complete
InitDelete ==
    /\ InitApp
    /\ InitDisk
    /\ delete_on_success \in BOOLEAN
    /\ create_subfolder \in BOOLEAN
    /\ complete = {"hA"}
    /\ downloading = {}
    /\ faults = 0
    /\ starts_left = 1

NextDelete ==
    \/ start_monitoring
    \/ stop_monitoring
    \/ \E w \in Workers : Step(w)
    \/ poll_gui_queue
    \/ delete_all_data

SpecDelete == InitDelete /\ [][NextDelete]_vars

\* lines 549-556: MainApp._clear_extraction_history.  Without the
\* confirmation nothing changes.  With it the list is emptied and
\* extractions.log is removed; when that os.remove raises (line 554), the
\* exception leaves the handler with the list empty and the file as it was.
clear_extraction_history ==
    \E yes \in BOOLEAN :
        IF ~yes THEN UNCHANGED vars
        ELSE \E log_removed \in BOOLEAN :
                /\ ~log_removed => logfile # <<>>
                /\ Fault(~log_removed)
                /\ extraction_history' = <<>>
                /\ logfile' = IF log_removed THEN <<>> ELSE logfile
                /\ UNCHANGED <<complete, downloading, paused, files, dirs,
                               listing, delete_on_success, create_subfolder,
                               processed_torrents, gui_queue, monitor_thread,
                               start_enabled, summary, locals, login, tick,
                               seen, dispatched, call, starts_left>>

\* the main window clears the history as well
NextClear ==
    \/ NextDelete
    \/ clear_extraction_history

SpecClear == InitDelete /\ [][NextClear]_vars

(***************************************************************************)
(* The claims.                                                              *)
(***************************************************************************)
\* the text ends with the given text
EndsWith(s, p) == Len(p) <= Len(s) /\ SubSeq(s, Len(s) - Len(p) + 1, Len(s)) = p

\* path containment: the resolved content path is the monitored root or lies
\* below it
IsWithin(content_path, root) ==
    LET c == Resolve(content_path)
        r == Resolve(root)
    IN  Len(r) <= Len(c) /\ SubSeq(c, 1, Len(r)) = r

InScope(h) ==
    /\ TorrentOf(h).content_path # NoContentPath
    /\ IsWithin(TorrentOf(h).content_path, monitor_path)

\* the thread is between two ticks, or has stopped
BetweenTicks(w) == pc[w] \in {"wait", "loop", "poll", "stopped"}

\* the extract_archive call of the thread is over
CallOver(w) == call[w].state \in {"returned", "raised"}

ToolFailed(w) == call[w].tool \in {"nonzero", "exception"}

RECURSIVE DispatchedUpTo(_, _)
DispatchedUpTo(n, h) ==
    IF n = 0 THEN 0 ELSE DispatchedUpTo(n - 1, h) + dispatched[n][h]

\* unpack_archives calls for the hash, over every thread of the process
TotalDispatched(h) == DispatchedUpTo(MaxRuns, h)

\* C1: in one run of the poller, a completed identifier inside the monitored
\* root is handed to unpack_archives exactly once: on the tick that first
\* selects it (so once that tick is over it has been dispatched) and on no
\* later tick.
C1_ExactlyOnceOnSelectingTick ==
    \A w \in Workers : \A h \in Hashes :
        InScope(h) =>
            /\ dispatched[w][h] <= 1
            /\ (h \in seen[w] /\ BetweenTicks(w) => dispatched[w][h] = 1)

\* C2: over every interleaving of start, stop and thread steps, an identifier
\* is handed to unpack_archives at most once in the process: once it is in
\* processed_torrents (it is added before its first dispatch) no thread
\* dispatches it again.
C2_NeverDispatchedAgain ==
    \A h \in Hashes : TotalDispatched(h) <= 1

C4_DeletionFailureIsolated ==
    \A w \in Workers :
        CallOver(w) /\ call[w].failed # {} =>
            /\ call[w].state = "returned"
            /\ call[w].tool = "ok"
            /\ call[w].tried = SeqRange(call[w].parts)
            /\ \A p \in SeqRange(call[w].parts) \ call[w].failed : p \notin files
            /\ Len(call[w].records) = 1
            /\ call[w].records[1].status = "SUCCESS"

\* the deletion of part 2 of 3 failed, parts 1 and 3 are deleted
C4_Witness ==
    \E w \in Workers :
        /\ call[w].state = "returned"
        /\ Len(call[w].parts) = 3
        /\ call[w].failed = {call[w].parts[2]}
        /\ call[w].parts[1] \notin files
        /\ call[w].parts[2] \in files
        /\ call[w].parts[3] \notin files

\* the messages a call is to put, in order, around its outcome message
EventsAround(w, outcome) ==
    << Msg("status", "Extracting", Name(call[w].primary), <<>>),
       Msg("progress", "start", <<>>, <<>>),
       outcome,
       Msg("progress", "stop", <<>>, <<>>),
       Msg("status", "Monitoring...", <<>>, <<>>) >>

\* C5: every extract_archive call, whatever its outcome, has put exactly the
\* messages Status(Extracting), ProgressStart, one outcome message,
\* ProgressStop, Status(Monitoring), in this order, by the time it is over.
C5_EventOrder ==
    \A w \in Workers :
        CallOver(w) =>
            /\ Len(call[w].events) = 5
            /\ call[w].events[3].tag \in
                   {"extraction_success", "extraction_failure"}
            /\ call[w].events = EventsAround(w, call[w].events[3])

\* C6: every extract_archive call that is over has appended exactly one record
\* to the history, and the record is SUCCESS exactly when the tool ended with
\* exit status 0.
C6_ExactlyOneRecord ==
    \A w \in Workers :
        CallOver(w) =>
            /\ Len(call[w].records) = 1
            /\ (call[w].records[1].status = "SUCCESS") <=> (call[w].tool = "ok")

\* C7: a failure while one item is handled keeps no other item of the tick
\* from being handled (when the tick is over, every item it selected has
\* been handed to unpack_archives) and does not end the run (the thread stops
\* only after a stop request or a failed login).
C7_FailureContained ==
    \A w \in Workers :
        /\ tick[w].done =>
               \A h \in tick[w].selected : dispatched[w][h] >= 1
        /\ pc[w] = "stopped" => stop_event[w] \/ ~login[w].ok

\* C8: the wait that ends a tick is 60 after a tick that raised and 15 after
\* any other tick; by the next poll the thread has waited that long, not 15
\* more and not 15 instead; and the thread reaches Stopped after the wait only
\* when a stop was requested, otherwise it polls again.
C8_Backoff ==
    \A w \in Workers :
        /\ pc[w] = "wait" =>
               /\ tick[w].done
               /\ tick[w].waited = 0
               /\ timeout[w] = IF tick[w].raised THEN 60 ELSE 15
        /\ tick[w].done /\ pc[w] \in {"loop", "poll", "stopped"} =>
               tick[w].waited = IF tick[w].raised THEN 60 ELSE 15
        /\ pc[w] = "stopped" /\ login[w].ok => stop_event[w]

\* after a tick that raised the thread has waited 60 and is about to poll
C8_Witness ==
    \E w \in Workers :
        /\ pc[w] = "poll"
        /\ tick[w].done /\ tick[w].raised
        /\ tick[w].waited = 60
        /\ ~stop_event[w]

\* C9: when the login fails the run reports the connection error and is
\* Stopped: the login is tried once, the client is never queried, and nothing
\* is marked processed, paused or handed to unpack_archives.
C9_LoginFailureStops ==
    \A w \in Workers :
        login[w].tries >= 1 /\ ~login[w].ok =>
            /\ pc[w] = "stopped"
            /\ login[w].tries = 1
            /\ login[w].status = "Error: Connection Failed"
            /\ ~login[w].queried
            /\ seen[w] = {}
            /\ \A h \in Hashes : dispatched[w][h] = 0
            /\ processed_torrents = {}
            /\ paused = {}
            /\ files = SeqRange(FileTable)
            /\ logfile = <<>>

\* the login of the run has failed while a torrent in scope is complete
C9_Witness ==
    \E w \in Workers :
        /\ login[w].tries = 1
        /\ ~login[w].ok
        /\ pc[w] = "stopped"
        /\ "hA" \in complete

\* C10: a complete torrent whose resolved content path is neither the
\* monitored root nor below it is never selected: it is not marked processed,
\* not paused and not handed to unpack_archives.
C10_PathContainment ==
    \A h \in Hashes :
        TorrentOf(h).content_path # NoContentPath /\ ~InScope(h) =>
            /\ h \notin processed_torrents
            /\ h \notin paused
            /\ \A w \in Workers : h \notin seen[w] /\ dispatched[w][h] = 0

\* the thread is handling an item of its batch, from the pause request on
Handling(w) ==
    pc[w] \in {"pause", "unpack", "extract", "mkdir", "run", "tool",
               "log_success", "put_success", "log_failure", "put_failure",
               "delete", "finally"}

\* the hash of the item the thread is handling
Item(w) == batch[w][idx[w]]

\* C11: every item that is paused, marked processed or handed to
\* unpack_archives was selected by a tick whose torrent list showed it complete
\* and whose test found it not yet in processed_torrents; a torrent that is
\* still downloading is never paused, marked or extracted.
C11_OnlyCompleteAndNew ==
    /\ [](\A h \in Hashes :
            /\ (h \in paused \/ h \in processed_torrents
                  \/ \E w \in Workers : dispatched[w][h] > 0) =>
                   /\ h \in complete
                   /\ \E w \in Workers : h \in seen[w]
            /\ h \in downloading =>
                   /\ h \notin paused
                   /\ h \notin processed_torrents
                   /\ \A w \in Workers : dispatched[w][h] = 0)
    /\ [][\A w \in Workers :
              pc[w] = "poll" =>
                  /\ seen'[w] \ seen[w] \subseteq SeqRange(batch'[w])
                  /\ \A h \in SeqRange(batch'[w]) :
                         h \in complete /\ h \notin processed_torrents]_vars

\* hA is paused, marked and dispatched while hB is still downloading
C11_Witness ==
    \E w \in Workers :
        /\ dispatched[w]["hA"] = 1
        /\ "hA" \in paused
        /\ "hA" \in processed_torrents
        /\ "hB" \in downloading

\* C12: while an item is handled, from its pause request to the end of its
\* extraction, and ever after, its hash is in processed_torrents: a paused
\* hash, a dispatched hash and the hash of an extract_archive call that raised
\* are all marked.
C12_MarkedBeforeDispatch ==
    /\ \A w \in Workers :
        /\ Handling(w) => Item(w) \in processed_torrents
        /\ call[w].state # "none" => call[w].hash \in processed_torrents
        /\ \A h \in Hashes : dispatched[w][h] > 0 => h \in processed_torrents
    /\ \A h \in paused : h \in processed_torrents

\* an extract_archive call for hA has raised, and hA is marked
C12_Witness ==
    \E w \in Workers :
        /\ call[w].state = "raised"
        /\ call[w].hash = "hA"
        /\ "hA" \in processed_torrents

\* C13: the step that ends the pause request, failed or not, leads to
\* unpack_archives for the same item, with no wait set and the tick not marked
\* as raised; so an item whose pause failed has been dispatched once the thread
\* has moved past it.
C13_PauseFailureDoesNotBlock ==
    /\ [](\A w \in Workers : \A h \in tick[w].selected :
            (/\ h \in processed_torrents
             /\ h \notin paused
             /\ ~(Handling(w) /\ Item(w) = h /\ pc[w] \in {"pause", "unpack"})
             /\ ~(pc[w] = "item" /\ Item(w) = h))
            => dispatched[w][h] >= 1)
    /\ [][\A w \in Workers :
              pc[w] = "pause" /\ pc'[w] # "pause" =>
                  /\ pc'[w] = "unpack"
                  /\ batch'[w] = batch[w] /\ idx'[w] = idx[w]
                  /\ timeout'[w] = timeout[w]
                  /\ tick'[w] = tick[w]]_vars

\* the pause of hA failed, hA was extracted, the tick ended without a raise
\* and the thread is about to poll again
C13_Witness ==
    \E w \in Workers :
        /\ "hA" \in processed_torrents
        /\ "hA" \notin paused
        /\ dispatched[w]["hA"] = 1
        /\ tick[w].done /\ ~tick[w].raised
        /\ tick[w].waited = 15
        /\ pc[w] = "poll"

\* C14: the name in every record a call writes, and in the outcome message it
\* puts, is the name of the containing folder the call was given
\* (torrent_name), under both settings of create_subfolder, with a numbered
\* subfolder and with several archive sets of one download.
C14_RecordsContainingFolderName ==
    \A w \in Workers :
        /\ \A k \in 1..Len(call[w].records) :
               call[w].records[k].name = call[w].name
        /\ \A k \in 1..Len(call[w].events) :
               call[w].events[k].tag \in
                   {"extraction_success", "extraction_failure"} =>
                   call[w].events[k].name = call[w].name

\* the directory the claim names: the folder name when it is free, else the
\* first free name among "name (2)", "name (3)", ...
ClaimedOutputDir(parent, base_name, taken) ==
    IF Join(parent, base_name) \notin taken
    THEN Join(parent, base_name)
    ELSE LET k == CHOOSE n \in 2..(Cardinality(taken) + 2) :
                      /\ Join(parent, OutputDirName(base_name, n)) \notin taken
                      /\ \A j \in 2..(n - 1) :
                             Join(parent, OutputDirName(base_name, j)) \in taken
         IN  Join(parent, OutputDirName(base_name, k))

\* C15: with create_subfolder, the output directory a call is about to create
\* is parent(primary)/name when that path is free, else the first free path
\* among parent(primary)/"name (2)", "name (3)", and so on.
C15_SubfolderAllocation ==
    \A w \in Workers :
        pc[w] = "mkdir" =>
            output_dir[w] = ClaimedOutputDir(Parent(call[w].primary),
                                             call[w].name, files \cup dirs)

\* the tool of the call is about to run or is running
AtTool(w) == pc[w] \in {"run", "tool"}

\* C16: with create_subfolder, a call reaches the tool only through the step
\* that creates its output directory, and that step finds no file or directory
\* of the name; so the directory the tool writes into was made by this call,
\* and no two threads run the tool on one output directory, also when they
\* chose the same free name before either created it.
C16_FreshOutputDir ==
    /\ [](\A w \in Workers :
            create_subfolder /\ AtTool(w) =>
                /\ output_dir[w] \in dirs
                /\ \A v \in Workers \ {w} :
                       AtTool(v) => output_dir[v] # output_dir[w])
    /\ [][\A w \in Workers :
              create_subfolder /\ AtTool(w)' /\ ~AtTool(w) =>
                  /\ pc[w] = "mkdir"
                  /\ output_dir[w] \notin (files \cup dirs)
                  /\ output_dir'[w] = output_dir[w]
                  /\ output_dir[w] \in dirs']_vars

\* two threads chose the same output directory; one created it and runs the
\* tool, the mkdir of the other raised without any injected fault
C16_Witness ==
    \E w \in Workers : \E v \in Workers \ {w} :
        /\ AtTool(v)
        /\ call[w].state = "raised"
        /\ call[w].events = <<>>
        /\ output_dir[w] = output_dir[v]
        /\ pc[w] = "wait"
        /\ faults = MaxFaults - 1

\* the text that appending the records of the messages writes, in order
RECURSIVE WrittenBy(_)
WrittenBy(msgs) ==
    IF msgs = <<>> THEN <<>>
    ELSE WrittenBy(SubSeq(msgs, 1, Len(msgs) - 1))
             \o FormatLine(IF msgs[Len(msgs)].tag = "extraction_success"
                           THEN "SUCCESS" ELSE "FAILURE",
                           msgs[Len(msgs)].name, msgs[Len(msgs)].path)

\* the (status, name, path) triples of the appended records, in order
Appended(msgs) ==
    [k \in 1..Len(msgs) |->
        << StatusText(IF msgs[k].tag = "extraction_success"
                      THEN "SUCCESS" ELSE "FAILURE"),
           msgs[k].name, msgs[k].path >>]

\* C17: when the history file holds exactly the records appended, in order,
\* each with a name without colon and line break, loading it yields the same
\* (status, name, path) triples in the same order.
C17_HistoryRoundTrip ==
    logfile = WrittenBy(gui_queue) => LoadHistory(logfile) = Appended(gui_queue)

\* how many colons the text holds
RECURSIVE Colons(_)
Colons(s) ==
    IF s = <<>> THEN 0
    ELSE Colons(Tail(s)) + (IF Head(s) = ":" THEN 1 ELSE 0)

\* the line has a status, a name and a path: two colons or more
WellFormed(line) == Colons(line) >= 2

\* the triple of a well-formed line: the text before its first colon, the
\* text between its first two colons, the rest
TripleOf(line) ==
    LET s == Strip(line)
        i == Find(s, ":")
        r == SubSeq(s, i + 1, Len(s))
        j == Find(r, ":")
    IN  << SubSeq(s, 1, i - 1), SubSeq(r, 1, j - 1), SubSeq(r, j + 1, Len(r)) >>

\* the triples of the well-formed lines of the text, in file order
WellFormedTriples(text) ==
    LET good == SelectSeq(FileLines(text), WellFormed)
    IN  [k \in 1..Len(good) |-> TripleOf(good[k])]

\* C18: loading a history file skips every line with fewer than two colons and
\* every blank line, and yields the triples of all other lines, those before
\* and those after a skipped line, in file order; the list the last load
\* built is such a list for a beginning of the file.
C18_MalformedLinesSkipped ==
    /\ LoadHistory(logfile) = WellFormedTriples(logfile)
    /\ \E n \in 0..Len(FileLines(logfile)) :
           extraction_history =
               [k \in 1..Len(SelectSeq(SubSeq(FileLines(logfile), 1, n), WellFormed))
                   |-> TripleOf(SelectSeq(SubSeq(FileLines(logfile), 1, n),
                                          WellFormed)[k])]

\* a file of three lines, the second one malformed, has been loaded: the
\* list holds the records of the first and the third line
C18_Witness ==
    /\ Len(FileLines(logfile)) = 3
    /\ WellFormed(FileLines(logfile)[1])
    /\ ~WellFormed(FileLines(logfile)[2])
    /\ WellFormed(FileLines(logfile)[3])
    /\ Len(extraction_history) = 2
    /\ extraction_history =
           << TripleOf(FileLines(logfile)[1]), TripleOf(FileLines(logfile)[3]) >>

\* the archive sets unpack_archives forms for the folder of hG
GroupSets == ArchiveSets(AllArchives(GroupDir))

\* the places (set, index) where the file occurs in the archive sets
PlacesOf(p, S) ==
    {<<k, i>> \in (1..Len(S)) \X (1..MaxFiles) :
        i <= Len(S[k].parts) /\ S[k].parts[i] = p}

\* C19: the archive sets partition the candidate files under the folder: each
\* candidate file is a part of exactly one set, exactly once; every part of a
\* set is a candidate file of the folder; every set has a part; the primary
\* of a set is one of its parts; and the sets a thread still has to extract
\* are the last of these sets.
C19_Partition ==
    LET S == GroupSets
    IN  /\ \A p \in files :
               IsUnder(p, GroupDir) /\ IsCandidate(p) =>
                   Cardinality(PlacesOf(p, S)) = 1
        /\ \A k \in 1..Len(S) :
               /\ S[k].parts # <<>>
               /\ S[k].primary \in SeqRange(S[k].parts)
               /\ \A p \in SeqRange(S[k].parts) :
                      p \in files /\ IsUnder(p, GroupDir) /\ IsCandidate(p)
        /\ \A w \in Workers :
               sets[w] # <<>> =>
                   \E n \in 1..Len(S) : sets[w] = SubSeq(S, n, Len(S))

\* the folder holds three candidate files in two archive sets, one of them
\* of two parts, which the thread is about to extract
C19_Witness ==
    \E w \in Workers :
        /\ pc[w] = "extract"
        /\ Cardinality(files) = 3
        /\ Len(sets[w]) = 2
        /\ \E k \in 1..2 : Len(sets[w][k].parts) = 2

\* the file has the extension .rar, in any case
IsRar(p) == Lower(Suffix(Name(p))) = <<".", "r", "a", "r">>

\* the file comes before the other in the directory walk
Earlier(p, q) ==
    \E i, j \in 1..Len(listing) : i < j /\ listing[i] = p /\ listing[j] = q

GroupFile(name) == Join(GroupDir, name)

C22_StopResponsive ==
    /\ [][\A w \in Workers :
              stop_event[w] =>
                  /\ pc[w] = "wait" => pc'[w] \in {"wait", "loop"}
                  /\ pc[w] = "loop" => pc'[w] \in {"loop", "stopped"}
                  /\ pc[w] \in {"wait", "loop"} =>
                         /\ login'[w] = login[w]
                         /\ tick'[w].selected = tick[w].selected
                         /\ dispatched'[w] = dispatched[w]]_vars
    /\ \A w \in Workers : stop_event[w] ~> (pc[w] = "stopped")

\* Stop was pressed after a tick that handled hA; the thread has ended run()
\* without another tick
C22_Witness ==
    \E w \in Workers :
        /\ stop_event[w]
        /\ pc[w] = "stopped"
        /\ tick[w].done
        /\ tick[w].waited = 15
        /\ dispatched[w]["hA"] = 1

\* C23: with delete_on_success on, a call that wrote the SUCCESS record has
\* tried to remove every part of its archive set by the time it is over, not
\* the primary alone; with delete_on_success off no call tries to remove a
\* part, whatever its outcome, and every file the disk held is still there.
C23_DeleteEveryPartOrNone ==
    /\ \A w \in Workers :
        /\ (/\ delete_on_success
            /\ CallOver(w)
            /\ call[w].records # <<>>
            /\ call[w].records[1].status = "SUCCESS")
           => call[w].tried = SeqRange(call[w].parts)
        /\ ~delete_on_success => call[w].tried = {} /\ call[w].failed = {}
    /\ ~delete_on_success => files = SeqRange(FileTable)

\* a set of three parts was extracted with delete_on_success on; the call is
\* over and none of the three parts is left
C23_Witness ==
    \E w \in Workers :
        /\ delete_on_success
        /\ call[w].state = "returned"
        /\ Len(call[w].parts) = 3
        /\ call[w].tried = SeqRange(call[w].parts)
        /\ SeqRange(call[w].parts) \cap files = {}

\* the call has put a success message
PutSuccessMessage(w) ==
    \E k \in 1..Len(call[w].events) : call[w].events[k].tag = "extraction_success"

\* the call has written a SUCCESS record
WroteSuccess(w) ==
    \E k \in 1..Len(call[w].records) : call[w].records[k].status = "SUCCESS"

\* C25: when the tool exited with status 0 and the write of the SUCCESS line
\* raised, the call is not taken as a success: it puts no extraction_success
\* message and tries to remove no part, with delete_on_success on as well; the
\* step that follows the failed write is the handler of line 138.
C25_FailedSuccessWriteIsNoSuccess ==
    /\ [](\A w \in Workers :
            (call[w].tool = "ok" /\ ~WroteSuccess(w)) =>
                /\ ~PutSuccessMessage(w)
                /\ call[w].tried = {}
                /\ pc[w] # "delete")
    /\ [][\A w \in Workers :
              (pc[w] = "log_success" /\ pc'[w] # "log_success"
                 /\ logfile' = logfile) =>
                  /\ pc'[w] = "log_failure"
                  /\ gui_queue' = gui_queue
                  /\ files' = files]_vars

\* delete_on_success is on, the tool exited 0, the SUCCESS write raised: the
\* call is over with a FAILURE record and every part still there
C25_Witness ==
    \E w \in Workers :
        /\ delete_on_success
        /\ call[w].state = "returned"
        /\ call[w].tool = "ok"
        /\ Len(call[w].records) = 1
        /\ call[w].records[1].status = "FAILURE"
        /\ SeqRange(call[w].parts) \subseteq files

\* the text holds a SUCCESS line
HasSuccessLine(text) ==
    \E i \in 1..Len(text) :
        /\ i + 7 <= Len(text)
        /\ SubSeq(text, i, i + 7) = StatusText("SUCCESS") \o <<":">>
        /\ (i = 1 \/ text[i - 1] = "\n")

\* C26: a part is removed by extract_archive only after the SUCCESS line of
\* the same call was written to extractions.log: a thread in the delete loop,
\* and a call that has tried to remove a part, has the SUCCESS record as its
\* first record; a file is removed from the disk only by such a thread; and
\* while a file of the disk is gone the log holds a SUCCESS line.
C26_SuccessRecordBeforeDelete ==
    /\ [](/\ \A w \in Workers :
                (pc[w] = "delete" \/ call[w].tried # {}) =>
                    /\ call[w].records # <<>>
                    /\ call[w].records[1].status = "SUCCESS"
                    /\ call[w].tool = "ok"
          /\ files # SeqRange(FileTable) => HasSuccessLine(logfile))
    /\ [][files' # files =>
              \E w \in Workers :
                  /\ pc[w] = "delete"
                  /\ files \ files' = {call[w].parts[part_i[w]]}
                  /\ WroteSuccess(w)]_vars

\* a part of an extracted set is removed while the others are still to go
C26_Witness ==
    \E w \in Workers :
        /\ pc[w] = "delete"
        /\ part_i[w] = 2
        /\ call[w].parts[1] \notin files
        /\ HasSuccessLine(logfile)

\* C28 as stated: when an exception leaves the handling of item k of a batch,
\* item k is in processed_torrents and no thread of the process hands it to
\* unpack_archives again, while the items after k are not in
\* processed_torrents (the step adds none, and only another thread that
\* selected them has) and are in the batch of the next tick that selects.
C28_RaisedItemStaysMarked ==
    /\ [](\A w \in Workers :
            call[w].state = "raised" =>
                /\ call[w].hash \in processed_torrents
                /\ TotalDispatched(call[w].hash) <= 1)
    /\ [][\A w \in Workers :
              /\ (Handling(w) /\ pc'[w] = "wait" /\ tick'[w].raised) =>
                     /\ Item(w) \in processed_torrents'
                     /\ processed_torrents' = processed_torrents
                     /\ \A j \in (idx[w] + 1)..Len(batch[w]) :
                            batch[w][j] \in processed_torrents' =>
                                \E v \in Workers \ {w} : batch[w][j] \in seen[v]
              /\ (pc[w] = "poll" /\ pc'[w] # "poll" /\ ~tick'[w].raised) =>
                     \A h \in seen[w] :
                         (h \in complete /\ h \notin processed_torrents)
                             => h \in SeqRange(batch'[w])]_vars

\* C29: the stop event is examined by the test of line 203 alone: a thread
\* whose event is set while it handles an item goes on through the batch as
\* it would have, item after item, and leaves the batch without an exception
\* only after its last item; so a thread that has ended run() after a tick
\* that did not raise has marked and dispatched every item the tick selected.
C29_StopOnlyBetweenTicks ==
    /\ [](\A w \in Workers :
            pc[w] = "stopped" =>
                /\ batch[w] = <<>>
                /\ ~tick[w].raised =>
                       \A h \in tick[w].selected :
                           /\ h \in processed_torrents
                           /\ dispatched[w][h] >= 1)
    /\ [][\A w \in Workers :
              (stop_event[w] /\ (pc[w] = "item" \/ Handling(w))) =>
                  /\ pc'[w] \in {"item", "pause", "unpack", "extract", "mkdir",
                                 "run", "tool", "log_success", "put_success",
                                 "log_failure", "put_failure", "delete",
                                 "finally", "wait"}
                  /\ (pc'[w] = "wait" /\ ~tick'[w].raised) =>
                         idx[w] = Len(batch[w])
                  /\ (pc'[w] = "item" /\ pc[w] # "item") =>
                         idx'[w] = idx[w] + 1]_vars

\* the stop event is set and the thread has extracted the second item of its
\* batch
C29_Witness ==
    \E w \in Workers :
        /\ stop_event[w]
        /\ idx[w] = 2
        /\ pc[w] = "put_success"
        /\ dispatched[w][batch[w][1]] = 1

\* the name of the file is that of a volume of a split archive
IsSplitName(p) == PartMatches(Name(p)) \/ PartMatches(Stem(Name(p)))

\* the file has a supported archive extension, is no volume of a split archive
\* and has no volume of a split archive of its name beside it
IsLoneArchive(p) ==
    /\ IsUnder(p, GroupDir)
    /\ Lower(Suffix(Name(p))) \in SUPPORTED_ARCHIVE_EXTENSIONS
    /\ ~IsSplitName(p)
    /\ \A q \in files \ {p} :
           ~(IsSplitName(q) /\ Parent(q) = Parent(p) /\ BaseName(q) = BaseName(p))

\* C21 as stated: a file with a supported archive extension that is no volume
\* of a split archive and has none beside it is an archive set of its own,
\* with itself as primary, whatever other archives the folder holds (x.zip
\* next to x.rar, x.zip in the folder and in its subfolder); so each such file
\* is handed to the tool.
C21_LoneArchiveIsSingleton ==
    LET S == GroupSets
    IN  \A p \in files :
            IsLoneArchive(p) =>
                \E k \in 1..Len(S) : S[k].parts = <<p>> /\ S[k].primary = p

\* C27 as stated: the parts of an archive set are files of one directory.
C27_SetWithinOneDirectory ==
    LET S == GroupSets
    IN  \A k \in 1..Len(S) :
            \A p, q \in SeqRange(S[k].parts) : Parent(p) = Parent(q)

\* the step is a run of _delete_all_data that was confirmed
DeletedAll ==
    \/ summary' # summary
    \/ extraction_history # <<>> /\ extraction_history' = <<>>

\* the records of the list whose path exists on the given disk
OnDisk(hist, fs, ds) ==
    {i \in 1..Len(hist) : PathOf(hist[i][3]) \in fs \cup ds}

C30_DeletesOnlyOutput ==
    [][DeletedAll =>
          /\ (dirs \ dirs') \cap DirTable = {}
          /\ (files \ files') \cap SeqRange(FileTable) = {}]_vars

\* no thread is inside a batch: every thread is between two ticks, has ended
\* run() or was never started
WorkerIdle ==
    \A w \in Workers : pc[w] \in {"idle", "wait", "loop", "poll", "stopped"}

\* C31 as stated: under every interleaving of the thread (the record is
\* written to extractions.log, then its outcome message is put) with the main
\* window's clear, delete-all and drain of the queue, whenever no thread is at
\* work and the queue is empty, extraction_history holds, in order, the
\* records of extractions.log; stated for the runs in which no call of the
\* service, the tool or the disk has failed.
C31_HistoryEqualsStore ==
    (faults = 0 /\ WorkerIdle /\ gui_queue = <<>>) =>
        extraction_history = LoadHistory(logfile)

=============================================================================
